---- MODULE Spec2Model ----
(***************************************************************************)
(* GlobaLeaks authentication handlers                                      *)
(* (backend/globaleaks/handlers/authentication.py): the login throttle,    *)
(* the staff and whistleblower login transactions, the network policy      *)
(* checks and the session registry they feed.                              *)
(***************************************************************************)
EXTENDS Integers, Sequences, FiniteSets, TLC

(***************************************************************************)
(* Bounds of the model.                                                    *)
(***************************************************************************)
NumTenants == 3
MaxReq == 2
MaxAttempts == 44
MaxSignups == 3

Tenants == 1..NumTenants
Reqs == 1..MaxReq

(***************************************************************************)
(* The credential store: models.User and models.InternalTip rows.          *)
(***************************************************************************)
hash_password(password, salt) == <<salt, password>>

check_password(password, salt, stored) == hash_password(password, salt) = stored

User(id, tid, role, username, state, salt, pw, token) ==
  [id |-> id, tid |-> tid, role |-> role, username |-> username, state |-> state,
   salt |-> salt, password |-> hash_password(pw, salt), auth_token |-> token,
   password_change_needed |-> FALSE]

UserTable ==
  { User(1, 1, "admin",     "alice", "enabled",  "s1", "p1", "tokA"),
    User(2, 1, "receiver",  "bob",   "enabled",  "s2", "p2", ""),
    User(3, 2, "receiver",  "alice", "enabled",  "s3", "p1", ""),
    User(4, 2, "admin",     "bob",   "disabled", "s4", "p2", "tokD"),
    User(5, 3, "custodian", "bob",   "enabled",  "s5", "p1", ""),
    User(6, 3, "admin",     "alice", "enabled",  "s6", "p2", ""),
    User(7, 1, "admin",     "bob",   "disabled", "s7", "p2", "") }

UserIds == {u.id : u \in UserTable}

\* The values a request may carry.  No two users share an auth_token that is
\* not empty.
Usernames == {"alice", "bob", "nobody"}
Passwords == {"p1", "p2"}
Tokens == {"", "tokA", "tokD"}

receipt_salt(tid) == IF tid = 1 THEN "S1" ELSE "S"

Tip(id, tid, receipt) ==
  [id |-> id, tid |-> tid, receipt_hash |-> hash_password(receipt, receipt_salt(tid))]

TipTable == { Tip(11, 2, "R1"), Tip(12, 3, "R2") }

TipIds == {w.id : w \in TipTable}

Receipts == {"R1", "R2", "R3"}

(***************************************************************************)
(* Client addresses and the tenant's allow-list.  An address is its four   *)
(* octets; the allow-list is the list of the comma-separated fields of the *)
(* configured text, the empty text being the one empty field.              *)
(***************************************************************************)
ClientIps == { <<127, 0, 0, 1>>, <<10, 0, 0, 5>>, <<192, 168, 1, 1>> }

Min(a, b) == IF a < b THEN a ELSE b

Max(a, b) == IF a > b THEN a ELSE b

OctetBits(prefix, i) == Max(0, Min(8, prefix - 8 * (i - 1)))

is_loopback(ip) == ip[1] = 127

in_network(ip, net) ==
  \A i \in 1..4 :
    ip[i] \div (2 ^ (8 - OctetBits(net.prefix, i)))
      = net.addr[i] \div (2 ^ (8 - OctetBits(net.prefix, i)))

ip_network(text) ==
  CASE text = "10.0.0.0/24"   -> [ok |-> TRUE, addr |-> <<10, 0, 0, 0>>, prefix |-> 24]
    [] text = "172.16.0.0/12" -> [ok |-> TRUE, addr |-> <<172, 16, 0, 0>>, prefix |-> 12]
    [] text = "192.168.1.1"   -> [ok |-> TRUE, addr |-> <<192, 168, 1, 1>>, prefix |-> 32]
    [] OTHER                  -> [ok |-> FALSE, addr |-> <<0, 0, 0, 0>>, prefix |-> 0]

parse_csv_ip_ranges_to_ip_networks(fields) ==
  IF \E i \in 1..Len(fields) : ~ip_network(fields[i]).ok
  THEN [ok |-> FALSE, nets |-> <<>>]
  ELSE [ok |-> TRUE, nets |-> [i \in 1..Len(fields) |-> ip_network(fields[i])]]

(***************************************************************************)
(* State.tenant_cache: the per-tenant settings the login code reads.       *)
(***************************************************************************)
Cfg(a, r, c, w, en, list) ==
  [https_admin |-> a, https_receiver |-> r, https_custodian |-> c,
   https_whistleblower |-> w, ip_filter_authenticated_enable |-> en,
   ip_filter_authenticated |-> list]

CacheA ==
  [t \in Tenants |->
     CASE t = 1 -> Cfg(TRUE, TRUE, TRUE, TRUE, FALSE, <<"not-an-ip">>)
       [] t = 2 -> Cfg(FALSE, TRUE, FALSE, FALSE, TRUE, <<"10.0.0.0/24">>)
       [] OTHER -> Cfg(TRUE, FALSE, TRUE, TRUE, TRUE, <<"172.16.0.0/12", "192.168.1.1">>)]

CacheB ==
  [t \in Tenants |->
     CASE t = 1 -> Cfg(FALSE, FALSE, TRUE, TRUE, TRUE, <<"10.0.0.0/24">>)
       [] t = 2 -> Cfg(TRUE, FALSE, TRUE, TRUE, FALSE, <<"10.0.0.0/24">>)
       [] OTHER -> Cfg(FALSE, TRUE, FALSE, FALSE, FALSE, <<"">>)]

https_role(cfg, role) ==
  CASE role = "admin"     -> cfg.https_admin
    [] role = "receiver"  -> cfg.https_receiver
    [] role = "custodian" -> cfg.https_custodian
    [] OTHER              -> cfg.https_whistleblower

(***************************************************************************)
(* random_login_delay: the values SystemRandom().randint may return.       *)
(***************************************************************************)
randint(a, b) == a..b

Threshold == 5

\* Mutants: the cap of 42 on the upper bound left out; the threshold one too low.
random_login_delay_uncapped(failed_attempts) ==
  IF failed_attempts >= Threshold
  THEN LET n == failed_attempts * failed_attempts
           min_sleep == IF failed_attempts < 42 THEN failed_attempts ELSE 42
       IN  randint(min_sleep, n)
  ELSE {0}

random_login_delay_early(failed_attempts) ==
  IF failed_attempts >= Threshold - 1
  THEN LET n == failed_attempts * failed_attempts
           min_sleep == IF failed_attempts < 42 THEN failed_attempts ELSE 42
           max_sleep == IF n < 42 THEN n ELSE 42
       IN  randint(min_sleep, max_sleep)
  ELSE {0}

random_login_delay(failed_attempts) ==
  IF failed_attempts >= Threshold
  THEN LET n == failed_attempts * failed_attempts
           min_sleep == IF failed_attempts < 42 THEN failed_attempts ELSE 42
           max_sleep == IF n < 42 THEN n ELSE 42
       IN  randint(min_sleep, max_sleep)
  ELSE {0}

(***************************************************************************)
(* The queries and checks of login() and login_whistleblower().            *)
(***************************************************************************)
NoUser == User(0, 0, "none", "", "disabled", "", "", "")

NoTip == [id |-> 0, tid |-> 0, receipt_hash |-> <<"", "">>]

\* The orders in which a query without ORDER BY may yield its rows.
Orders(S) ==
  {s \in [1..Cardinality(S) -> S] : \A x \in S : \E i \in 1..Cardinality(S) : s[i] = x}

\* Mutant: the tenant filter left out of the token query.
query_by_token_anytenant(tid, token) ==
  {u \in UserTable : u.auth_token = token /\ u.state # "disabled"}

query_by_token(tid, token) ==
  {u \in UserTable : u.auth_token = token /\ u.state # "disabled" /\ u.tid = tid}

\* Mutant: the root tenant opened to every role.
query_by_username_anyrole(tid, username) ==
  {u \in UserTable :
     /\ u.username = username
     /\ u.state # "disabled"
     /\ u.tid \in {1, tid}}

\* Mutant: the filter on the state left out of the username query.
query_by_username_anystate(tid, username) ==
  {u \in UserTable :
     /\ u.username = username
     /\ \/ (u.role = "admin" /\ u.tid \in {1, tid})
        \/ (u.role # "admin" /\ u.tid = tid)}

query_by_username(tid, username) ==
  {u \in UserTable :
     /\ u.username = username
     /\ u.state # "disabled"
     /\ \/ (u.role = "admin" /\ u.tid \in {1, tid})
        \/ (u.role # "admin" /\ u.tid = tid)}

one_or_none(S, none) == IF S = {} THEN none ELSE CHOOSE x \in S : TRUE

RECURSIVE verify_loop(_, _, _)
verify_loop(users, password, user) ==
  IF users = <<>>
  THEN user
  ELSE verify_loop(Tail(users), password,
                   IF check_password(password, Head(users).salt, Head(users).password)
                   THEN Head(users)
                   ELSE user)

resolve_user(tid, username, password, token, order) ==
  IF token # ""
  THEN one_or_none(query_by_token(tid, token), NoUser)
  ELSE verify_loop(order, password, NoUser)

\* The calls of security.check_password a login makes: one for each row the
\* loop goes through, none when the user is looked up by token.
verifier_calls(token, order) == IF token # "" THEN 0 ELSE Len(order)

\* The ids of the rows the username query yielded, in the order it yielded
\* them; with a token that query is not made.
query_rows(token, order) ==
  IF token # "" THEN <<>> ELSE [i \in 1..Len(order) |-> order[i].id]

\* Mutant: the root tenant's flags read instead of the tenant's.
tor_required_root(cache, tid, role, client_using_tor) ==
  ~client_using_tor /\ ~https_role(cache[1], role)

tor_required(cache, tid, role, client_using_tor) ==
  ~client_using_tor /\ ~https_role(cache[tid], role)

RECURSIVE networks_loop(_, _, _)
networks_loop(ip_networks, client_ip, success) ==
  IF ip_networks = <<>>
  THEN success
  ELSE networks_loop(Tail(ip_networks), client_ip,
                     IF in_network(client_ip, Head(ip_networks)) THEN TRUE ELSE success)

\* Mutant: no exception for loopback addresses.
ip_filter_noloopback(cache, tid, client_ip) ==
  IF cache[tid].ip_filter_authenticated_enable
  THEN LET parsed == parse_csv_ip_ranges_to_ip_networks(cache[tid].ip_filter_authenticated)
       IN  IF ~parsed.ok
           THEN "error"
           ELSE IF networks_loop(parsed.nets, client_ip, FALSE)
                THEN "ok"
                ELSE "denied"
  ELSE "ok"

\* "ok", "denied" (AccessLocationInvalid) or "error" (the parser raised).
ip_filter(cache, tid, client_ip) ==
  IF cache[tid].ip_filter_authenticated_enable
  THEN LET parsed == parse_csv_ip_ranges_to_ip_networks(cache[tid].ip_filter_authenticated)
       IN  IF ~parsed.ok
           THEN "error"
           ELSE IF networks_loop(parsed.nets, client_ip, is_loopback(client_ip))
                THEN "ok"
                ELSE "denied"
  ELSE "ok"

\* Mutants: the counter raised on a network policy denial too; the counter
\* reset by a successful login.
login_inc_on_deny(cache, failed, logins, time, tid, username, password, client_using_tor, client_ip, token, order) ==
  LET user == resolve_user(tid, username, password, token, order)
      base == [outcome |-> "Success", user |-> user, failed_login_attempts |-> failed,
               last_login |-> logins]
  IN  IF user = NoUser
      THEN [base EXCEPT !.outcome = "InvalidAuthentication",
                        !.failed_login_attempts = failed + 1]
      ELSE IF tor_required(cache, tid, user.role, client_using_tor)
      THEN [base EXCEPT !.outcome = "TorNetworkRequired",
                        !.failed_login_attempts = failed + 1]
      ELSE IF ip_filter(cache, tid, client_ip) = "error"
      THEN [base EXCEPT !.outcome = "ValueError"]
      ELSE IF ip_filter(cache, tid, client_ip) = "denied"
      THEN [base EXCEPT !.outcome = "AccessLocationInvalid",
                        !.failed_login_attempts = failed + 1]
      ELSE [base EXCEPT !.last_login = [logins EXCEPT ![user.id] = time]]

login_reset_on_success(cache, failed, logins, time, tid, username, password, client_using_tor, client_ip, token, order) ==
  LET user == resolve_user(tid, username, password, token, order)
      base == [outcome |-> "Success", user |-> user, failed_login_attempts |-> failed,
               last_login |-> logins]
  IN  IF user = NoUser
      THEN [base EXCEPT !.outcome = "InvalidAuthentication",
                        !.failed_login_attempts = failed + 1]
      ELSE IF tor_required(cache, tid, user.role, client_using_tor)
      THEN [base EXCEPT !.outcome = "TorNetworkRequired"]
      ELSE IF ip_filter(cache, tid, client_ip) = "error"
      THEN [base EXCEPT !.outcome = "ValueError"]
      ELSE IF ip_filter(cache, tid, client_ip) = "denied"
      THEN [base EXCEPT !.outcome = "AccessLocationInvalid"]
      ELSE [base EXCEPT !.failed_login_attempts = 0,
                        !.last_login = [logins EXCEPT ![user.id] = time]]

\* Mutant: the allow-list checked before the Tor rule.
login_ip_first(cache, failed, logins, time, tid, username, password, client_using_tor, client_ip, token, order) ==
  LET user == resolve_user(tid, username, password, token, order)
      base == [outcome |-> "Success", user |-> user, failed_login_attempts |-> failed,
               last_login |-> logins]
  IN  IF user = NoUser
      THEN [base EXCEPT !.outcome = "InvalidAuthentication",
                        !.failed_login_attempts = failed + 1]
      ELSE IF ip_filter(cache, tid, client_ip) = "error"
      THEN [base EXCEPT !.outcome = "ValueError"]
      ELSE IF ip_filter(cache, tid, client_ip) = "denied"
      THEN [base EXCEPT !.outcome = "AccessLocationInvalid"]
      ELSE IF tor_required(cache, tid, user.role, client_using_tor)
      THEN [base EXCEPT !.outcome = "TorNetworkRequired"]
      ELSE [base EXCEPT !.last_login = [logins EXCEPT ![user.id] = time]]

\* Mutant: an unknown username refused without counting the failure.
login_unknown_uncounted(cache, failed, logins, time, tid, username, password, client_using_tor, client_ip, token, order) ==
  LET user == resolve_user(tid, username, password, token, order)
      base == [outcome |-> "Success", user |-> user, failed_login_attempts |-> failed,
               last_login |-> logins]
  IN  IF user = NoUser
      THEN [base EXCEPT !.outcome = "InvalidAuthentication",
                        !.failed_login_attempts =
                           IF token = "" /\ order = <<>> THEN failed ELSE failed + 1]
      ELSE IF tor_required(cache, tid, user.role, client_using_tor)
      THEN [base EXCEPT !.outcome = "TorNetworkRequired"]
      ELSE IF ip_filter(cache, tid, client_ip) = "error"
      THEN [base EXCEPT !.outcome = "ValueError"]
      ELSE IF ip_filter(cache, tid, client_ip) = "denied"
      THEN [base EXCEPT !.outcome = "AccessLocationInvalid"]
      ELSE [base EXCEPT !.last_login = [logins EXCEPT ![user.id] = time]]

\* The body of login(): its outcome, the user it resolved, and the values it
\* leaves in Settings.failed_login_attempts and User.last_login.
login(cache, failed, logins, time, tid, username, password, client_using_tor, client_ip, token, order) ==
  LET user == resolve_user(tid, username, password, token, order)
      base == [outcome |-> "Success", user |-> user, failed_login_attempts |-> failed,
               last_login |-> logins]
  IN  IF user = NoUser
      THEN [base EXCEPT !.outcome = "InvalidAuthentication",
                        !.failed_login_attempts = failed + 1]
      ELSE IF tor_required(cache, tid, user.role, client_using_tor)
      THEN [base EXCEPT !.outcome = "TorNetworkRequired"]
      ELSE IF ip_filter(cache, tid, client_ip) = "error"
      THEN [base EXCEPT !.outcome = "ValueError"]
      ELSE IF ip_filter(cache, tid, client_ip) = "denied"
      THEN [base EXCEPT !.outcome = "AccessLocationInvalid"]
      ELSE [base EXCEPT !.last_login = [logins EXCEPT ![user.id] = time]]

\* Mutant: the tenant filter left out of the receipt query.
db_get_wbtip_by_receipt_anytenant(tid, receipt) ==
  one_or_none({w \in TipTable :
                 w.receipt_hash = hash_password(receipt, receipt_salt(tid))},
              NoTip)

db_get_wbtip_by_receipt(tid, receipt) ==
  one_or_none({w \in TipTable :
                 w.receipt_hash = hash_password(receipt, receipt_salt(tid)) /\ w.tid = tid},
              NoTip)

\* Mutant: the counter left alone on a receipt that matches nothing.
login_whistleblower_noinc(cache, failed, accesses, time, tid, receipt, client_using_tor) ==
  LET wbtip == db_get_wbtip_by_receipt(tid, receipt)
      base == [outcome |-> "Success", wbtip |-> wbtip, failed_login_attempts |-> failed,
               last_access |-> accesses]
  IN  IF wbtip = NoTip
      THEN [base EXCEPT !.outcome = "InvalidAuthentication"]
      ELSE IF ~client_using_tor /\ ~cache[tid].https_whistleblower
      THEN [base EXCEPT !.outcome = "TorNetworkRequired"]
      ELSE [base EXCEPT !.last_access = [accesses EXCEPT ![wbtip.id] = time]]

\* Mutant: a staff flag read in place of the whistleblower flag.
login_whistleblower_staffflag(cache, failed, accesses, time, tid, receipt, client_using_tor) ==
  LET wbtip == db_get_wbtip_by_receipt(tid, receipt)
      base == [outcome |-> "Success", wbtip |-> wbtip, failed_login_attempts |-> failed,
               last_access |-> accesses]
  IN  IF wbtip = NoTip
      THEN [base EXCEPT !.outcome = "InvalidAuthentication",
                        !.failed_login_attempts = failed + 1]
      ELSE IF ~client_using_tor /\ ~cache[tid].https_receiver
      THEN [base EXCEPT !.outcome = "TorNetworkRequired"]
      ELSE [base EXCEPT !.last_access = [accesses EXCEPT ![wbtip.id] = time]]

login_whistleblower(cache, failed, accesses, time, tid, receipt, client_using_tor) ==
  LET wbtip == db_get_wbtip_by_receipt(tid, receipt)
      base == [outcome |-> "Success", wbtip |-> wbtip, failed_login_attempts |-> failed,
               last_access |-> accesses]
  IN  IF wbtip = NoTip
      THEN [base EXCEPT !.outcome = "InvalidAuthentication",
                        !.failed_login_attempts = failed + 1]
      ELSE IF ~client_using_tor /\ ~cache[tid].https_whistleblower
      THEN [base EXCEPT !.outcome = "TorNetworkRequired"]
      ELSE [base EXCEPT !.last_access = [accesses EXCEPT ![wbtip.id] = time]]

(***************************************************************************)
(* State.                                                                  *)
(***************************************************************************)
VARIABLES
  failed_login_attempts,  \* Settings.failed_login_attempts
  tenant_cache,           \* State.tenant_cache
  last_login,             \* User.last_login, by user id
  last_access,            \* InternalTip.last_access, by tip id
  Sessions,               \* the session registry
  next_id,                \* session identifiers handed out so far
  req,                    \* the requests, by slot: each slot serves one request
  logout,                 \* what the last DELETE of a session was answered
  db                      \* signup.py: the rows of Tenant, Signup and Config

vars == <<failed_login_attempts, tenant_cache, last_login, last_access,
          Sessions, next_id, req, logout, db>>

\* The fields of a request the handlers read: self.request.tid,
\* client_using_tor and client_ip, and the body's username, password, token
\* or receipt.
NoArgs ==
  [tid |-> 0, username |-> "", password |-> "", token |-> "", receipt |-> "",
   client_using_tor |-> FALSE, client_ip |-> <<0, 0, 0, 0>>]

Idle ==
  [pc |-> "idle", kind |-> "none", delay |-> 0, args |-> NoArgs, outcome |-> "none",
   user_id |-> 0, role |-> "none", status |-> "none", loaded |-> 0, calls |-> 0,
   rows |-> <<>>]

NoLogout == [id |-> 0, outcome |-> "none"]

\* The database before any signup, with signup not enabled: the tenants of
\* the model have their rows of Config and have been through the wizard.
TenantIds == 1..(NumTenants + MaxSignups)

NoRet == [outcome |-> "none", initialized |-> FALSE]

EmptyDb ==
  [enable_signup |-> FALSE, Tenant |-> Tenants, Signup |-> {}, Config |-> Tenants,
   wizards |-> [t \in TenantIds |-> IF t \in Tenants THEN 1 ELSE 0], ret |-> NoRet]

\* datetime_now(): later than every time stamp stored so far.
RECURSIVE SetMax(_)
SetMax(S) ==
  IF S = {} THEN 0
  ELSE LET x == CHOOSE y \in S : TRUE IN Max(x, SetMax(S \ {x}))

datetime_now ==
  1 + SetMax({last_login[u] : u \in UserIds} \cup {last_access[w] : w \in TipIds})

\* The counter starts at 0; a run may also start after the failed logins that
\* brought it just below the threshold of the delay.
Init ==
  /\ failed_login_attempts \in {0, Threshold - 1}
  /\ tenant_cache \in {CacheA, CacheB}
  /\ last_login = [u \in UserIds |-> 0]
  /\ last_access = [w \in TipIds |-> 0]
  /\ Sessions = {}
  /\ next_id = 0
  /\ req = [r \in Reqs |-> Idle]
  /\ logout = NoLogout
  /\ db = EmptyDb

(***************************************************************************)
(* AuthenticationHandler.post and ReceiptAuthHandler.post, step by step.   *)
(***************************************************************************)
\* Mutant: the delay drawn but not waited for.
PostBegin_nosleep(r, kind) ==
  /\ req[r].pc = "idle"
  /\ \E delay \in random_login_delay(failed_login_attempts) :
       req' = [req EXCEPT ![r].pc = "txn",
                          ![r].kind = kind,
                          ![r].delay = delay]
  /\ UNCHANGED <<failed_login_attempts, tenant_cache, last_login, last_access,
                 Sessions, next_id, logout, db>>

\* The handler reads the request, draws the delay and, when it is not zero,
\* sleeps; otherwise it goes on to the login transaction.
PostBegin(r, kind) ==
  /\ req[r].pc = "idle"
  /\ \E delay \in random_login_delay(failed_login_attempts) :
       req' = [req EXCEPT ![r].pc = IF delay # 0 THEN "sleep" ELSE "txn",
                             ![r].kind = kind,
                             ![r].delay = delay]
  /\ UNCHANGED <<failed_login_attempts, tenant_cache, last_login, last_access,
                 Sessions, next_id, logout, db>>

\* deferred_sleep(delay) fires.
Wake(r) ==
  /\ req[r].pc = "sleep"
  /\ req' = [req EXCEPT ![r].pc = "txn"]
  /\ UNCHANGED <<failed_login_attempts, tenant_cache, last_login, last_access,
                 Sessions, next_id, logout, db>>

\* Mutant: the handler going on to new_session after a raise.
Returned_ignoring_raise(slot, args, outcome, user_id, role, status) ==
  [slot EXCEPT !.pc = "session", !.args = args, !.outcome = outcome,
               !.user_id = user_id, !.role = role, !.status = status]

\* What the handler holds once the transaction has returned or raised.
Returned(slot, args, outcome, user_id, role, status) ==
  IF outcome = "Success"
  THEN [slot EXCEPT !.pc = "session", !.args = args, !.outcome = outcome,
                    !.user_id = user_id, !.role = role, !.status = status]
  ELSE [slot EXCEPT !.pc = "done", !.args = args, !.outcome = outcome]

AuthArgs(tid, username, password, client_using_tor, client_ip, token) ==
  [NoArgs EXCEPT !.tid = tid, !.username = username, !.password = password,
                 !.token = token, !.client_using_tor = client_using_tor,
                 !.client_ip = client_ip]

ReceiptArgs(tid, receipt, client_using_tor) ==
  [NoArgs EXCEPT !.tid = tid, !.receipt = receipt, !.client_using_tor = client_using_tor]

\* The login transaction of a staff request.  The fields of the request are
\* drawn here, where the code first uses them.
Login(r, tid, username, password, client_using_tor, client_ip, token) ==
  /\ req[r].pc = "txn"
  /\ req[r].kind = "auth"
  /\ \E order \in Orders(query_by_username(tid, username)) :
       LET res == login(tenant_cache, failed_login_attempts, last_login, datetime_now,
                        tid, username, password, client_using_tor, client_ip, token, order)
       IN  /\ failed_login_attempts' = res.failed_login_attempts
           /\ last_login' = res.last_login
           /\ req' = [req EXCEPT ![r] =
                        [Returned(req[r],
                                  AuthArgs(tid, username, password, client_using_tor,
                                           client_ip, token),
                                  res.outcome, res.user.id, res.user.role, res.user.state)
                           EXCEPT !.calls = verifier_calls(token, order),
                                  !.rows = query_rows(token, order)]]
  /\ UNCHANGED <<tenant_cache, last_access, Sessions, next_id, logout, db>>

\* The login transaction of a receipt request.
LoginWhistleblower(r, tid, receipt, client_using_tor) ==
  /\ req[r].pc = "txn"
  /\ req[r].kind = "receipt"
  /\ LET res == login_whistleblower(tenant_cache, failed_login_attempts, last_access,
                                    datetime_now, tid, receipt, client_using_tor)
     IN  /\ failed_login_attempts' = res.failed_login_attempts
         /\ last_access' = res.last_access
         /\ req' = [req EXCEPT ![r] =
                      Returned(req[r], ReceiptArgs(tid, receipt, client_using_tor),
                               res.outcome, res.wbtip.id, "whistleblower", "Enabled")]
  /\ UNCHANGED <<tenant_cache, last_login, Sessions, next_id, logout, db>>

\* new_session(tid, user_id, role, status) and the response.
\* Mutant: the session filed under the root tenant.
new_session_root(id, tid, user_id, role, status) ==
  [id |-> id, tid |-> 1, user_id |-> user_id, user_role |-> role, user_status |-> status]

new_session(id, tid, user_id, role, status) ==
  [id |-> id, tid |-> tid, user_id |-> user_id, user_role |-> role, user_status |-> status]

NewSession(r) ==
  /\ req[r].pc = "session"
  /\ next_id' = next_id + 1
  /\ Sessions' = Sessions \cup
       {new_session(next_id + 1, req[r].args.tid, req[r].user_id, req[r].role, req[r].status)}
  /\ req' = [req EXCEPT ![r].pc = "done"]
  /\ UNCHANGED <<failed_login_attempts, tenant_cache, last_login, last_access, logout,
                 db>>

\* The response (or the error) has been sent and the handler is gone.
Respond(r) ==
  /\ req[r].pc = "done"
  /\ req' = [req EXCEPT ![r] = [Idle EXCEPT !.pc = "closed"]]
  /\ UNCHANGED <<failed_login_attempts, tenant_cache, last_login, last_access,
                 Sessions, next_id, logout, db>>

(***************************************************************************)
(* SessionHandler.                                                         *)
(***************************************************************************)
SessionGet(s) ==
  /\ s \in Sessions
  /\ UNCHANGED vars

\* del Sessions[self.current_user.id], the session being in the registry.
SessionDelete(s) ==
  /\ s \in Sessions
  /\ Sessions' = Sessions \ {s}
  /\ logout' = [id |-> s.id, outcome |-> "ok"]
  /\ UNCHANGED <<failed_login_attempts, tenant_cache, last_login, last_access,
                 next_id, req, db>>

\* The same request once more, for an identifier handed out earlier whose
\* session is no longer in the registry: the handler is refused its
\* current_user, or del finds no such key; either way the request ends in an
\* error and the registry is as it was.
LogoutErrors == {"NotAuthenticated", "KeyError"}

SessionDeleteAgain(id) ==
  /\ id \in 1..next_id
  /\ \A s \in Sessions : s.id # id
  /\ \E e \in LogoutErrors : logout' = [id |-> id, outcome |-> e]
  /\ UNCHANGED <<failed_login_attempts, tenant_cache, last_login, last_access,
                 Sessions, next_id, req, db>>

\* The answer to the DELETE has been sent.
LogoutRespond ==
  /\ logout # NoLogout
  /\ logout' = NoLogout
  /\ UNCHANGED <<failed_login_attempts, tenant_cache, last_login, last_access,
                 Sessions, next_id, req, db>>

\* Requests arriving one after the other: the next one is read once the
\* previous one has been answered, a request to the session handler too.
InTurn(r) == \A q \in 1..(r - 1) : req[q].pc = "closed"

Quiet == logout = NoLogout

NoneInFlight == \A r \in Reqs : req[r].pc \in {"idle", "closed"}

\* The bodies of the staff login requests: with a token, the username and
\* the password take two of their values.
AuthDesc ==
  {d \in [username : Usernames, password : Passwords, token : Tokens] :
     d.token # "" => <<d.username, d.password>> \in {<<"alice", "p1">>, <<"nobody", "p2">>}}

Next ==
  \/ \E r \in Reqs, kind \in {"auth", "receipt"} : Quiet /\ InTurn(r) /\ PostBegin(r, kind)
  \/ \E r \in Reqs : Quiet /\ Wake(r)
  \/ \E r \in Reqs :
       /\ Quiet
       /\ req[r].pc = "txn"
       /\ req[r].kind = "auth"
       /\ \E tid \in Tenants, d \in AuthDesc, client_using_tor \in BOOLEAN,
             client_ip \in ClientIps :
            Login(r, tid, d.username, d.password, client_using_tor, client_ip, d.token)
  \/ \E r \in Reqs :
       /\ Quiet
       /\ req[r].pc = "txn"
       /\ req[r].kind = "receipt"
       /\ \E tid \in Tenants, receipt \in Receipts, client_using_tor \in BOOLEAN :
            LoginWhistleblower(r, tid, receipt, client_using_tor)
  \/ \E r \in Reqs : Quiet /\ NewSession(r)
  \/ \E r \in Reqs : Quiet /\ Respond(r)
  \/ \E s \in Sessions : Quiet /\ NoneInFlight /\ SessionGet(s)
  \/ \E s \in Sessions : Quiet /\ NoneInFlight /\ SessionDelete(s)
  \/ \E id \in 1..next_id : Quiet /\ NoneInFlight /\ SessionDeleteAgain(id)
  \/ LogoutRespond

Spec == Init /\ [][Next]_vars

(***************************************************************************)
(* random_login_delay over the whole range of the counter.                 *)
(***************************************************************************)
InitDelay ==
  /\ failed_login_attempts \in 0..MaxAttempts
  /\ tenant_cache = CacheA
  /\ last_login = [u \in UserIds |-> 0]
  /\ last_access = [w \in TipIds |-> 0]
  /\ Sessions = {}
  /\ next_id = 0
  /\ req = [r \in Reqs |-> Idle]
  /\ logout = NoLogout
  /\ db = EmptyDb

NextDelay ==
  \/ \E kind \in {"auth", "receipt"} : PostBegin(1, kind)
  \/ Wake(1)

SpecDelay == InitDelay /\ [][NextDelay]_vars

(***************************************************************************)
(* Login transactions running in parallel: the statement                   *)
(* Settings.failed_login_attempts += 1 reads the counter and writes it     *)
(* back in two steps, and another transaction may run in between.          *)
(***************************************************************************)
InitConc ==
  /\ failed_login_attempts = 0
  /\ tenant_cache = CacheA
  /\ last_login = [u \in UserIds |-> 0]
  /\ last_access = [w \in TipIds |-> 0]
  /\ Sessions = {}
  /\ next_id = 0
  /\ req = [r \in Reqs |-> Idle]
  /\ logout = NoLogout
  /\ db = EmptyDb

\* The transaction up to the read of the counter.
Loaded(slot, args, failed) ==
  [slot EXCEPT !.pc = "store", !.args = args, !.loaded = failed]

LoginPar(r, tid, username, password, client_using_tor, client_ip, token) ==
  /\ req[r].pc = "txn"
  /\ req[r].kind = "auth"
  /\ \E order \in Orders(query_by_username(tid, username)) :
       LET res == login(tenant_cache, failed_login_attempts, last_login, datetime_now,
                        tid, username, password, client_using_tor, client_ip, token, order)
           args == AuthArgs(tid, username, password, client_using_tor, client_ip, token)
       IN  IF res.outcome = "InvalidAuthentication"
           THEN /\ req' = [req EXCEPT ![r] =
                             [Loaded(req[r], args, failed_login_attempts)
                                EXCEPT !.calls = verifier_calls(token, order),
                                       !.rows = query_rows(token, order)]]
                /\ UNCHANGED <<failed_login_attempts, last_login>>
           ELSE /\ failed_login_attempts' = res.failed_login_attempts
                /\ last_login' = res.last_login
                /\ req' = [req EXCEPT ![r] =
                             [Returned(req[r], args, res.outcome, res.user.id,
                                       res.user.role, res.user.state)
                                EXCEPT !.calls = verifier_calls(token, order),
                                       !.rows = query_rows(token, order)]]
  /\ UNCHANGED <<tenant_cache, last_access, Sessions, next_id, logout, db>>

LoginWhistleblowerPar(r, tid, receipt, client_using_tor) ==
  /\ req[r].pc = "txn"
  /\ req[r].kind = "receipt"
  /\ LET res == login_whistleblower(tenant_cache, failed_login_attempts, last_access,
                                    datetime_now, tid, receipt, client_using_tor)
         args == ReceiptArgs(tid, receipt, client_using_tor)
     IN  IF res.outcome = "InvalidAuthentication"
         THEN /\ req' = [req EXCEPT ![r] = Loaded(req[r], args, failed_login_attempts)]
              /\ UNCHANGED <<failed_login_attempts, last_access>>
         ELSE /\ failed_login_attempts' = res.failed_login_attempts
              /\ last_access' = res.last_access
              /\ req' = [req EXCEPT ![r] =
                           Returned(req[r], args, res.outcome, res.wbtip.id,
                                    "whistleblower", "Enabled")]
  /\ UNCHANGED <<tenant_cache, last_login, Sessions, next_id, logout, db>>

\* The write of the counter, and the raise.
StoreFailed(r) ==
  /\ req[r].pc = "store"
  /\ failed_login_attempts' = req[r].loaded + 1
  /\ req' = [req EXCEPT ![r].pc = "done", ![r].outcome = "InvalidAuthentication"]
  /\ UNCHANGED <<tenant_cache, last_login, last_access, Sessions, next_id, logout,
                 db>>

\* Below the threshold of the delay no request sleeps.
NextConc ==
  \/ \E r \in Reqs, kind \in {"auth", "receipt"} : PostBegin(r, kind)
  \/ \E r \in Reqs :
       /\ req[r].pc = "txn"
       /\ req[r].kind = "auth"
       /\ \E tid \in Tenants, d \in AuthDesc, client_using_tor \in BOOLEAN,
             client_ip \in ClientIps :
            LoginPar(r, tid, d.username, d.password, client_using_tor, client_ip, d.token)
  \/ \E r \in Reqs :
       /\ req[r].pc = "txn"
       /\ req[r].kind = "receipt"
       /\ \E tid \in Tenants, receipt \in Receipts, client_using_tor \in BOOLEAN :
            LoginWhistleblowerPar(r, tid, receipt, client_using_tor)
  \/ \E r \in Reqs : StoreFailed(r)
  \/ \E r \in Reqs : NewSession(r)

SpecConc == InitConc /\ [][NextConc]_vars

(***************************************************************************)
(* admin/node.py: db_update_node, as far as the settings of the IP filter  *)
(* go.  A request holds some of the keys of the node; the keys it holds    *)
(* are stored, the allow-list is parsed when the request holds it together *)
(* with a true enable flag and is not empty, and the tenant cache is       *)
(* refreshed.  A raise leaves the transaction and nothing is stored.       *)
(***************************************************************************)
EmptyText == <<"">>

NodeLists == { <<"10.0.0.0/24">>, <<"not-an-ip">>, EmptyText }

NodeRequests ==
  {q \in [keys : SUBSET {"ip_filter_authenticated_enable", "ip_filter_authenticated"},
          ip_filter_authenticated_enable : BOOLEAN,
          ip_filter_authenticated : NodeLists] :
     /\ q.keys # {}
     /\ "ip_filter_authenticated_enable" \notin q.keys => ~q.ip_filter_authenticated_enable
     /\ "ip_filter_authenticated" \notin q.keys => q.ip_filter_authenticated = EmptyText}

\* node.update(request)
node_update(cfg, request) ==
  [cfg EXCEPT
     !.ip_filter_authenticated_enable =
        IF "ip_filter_authenticated_enable" \in request.keys
        THEN request.ip_filter_authenticated_enable ELSE @,
     !.ip_filter_authenticated =
        IF "ip_filter_authenticated" \in request.keys
        THEN request.ip_filter_authenticated ELSE @]

\* "ok", or the exception that leaves db_update_node.
db_update_node(cfg, request) ==
  LET node == node_update(cfg, request)
  IN  IF "ip_filter_authenticated" \in request.keys
      THEN IF "ip_filter_authenticated_enable" \notin request.keys
           THEN [outcome |-> "KeyError", cfg |-> cfg]
           ELSE IF /\ request.ip_filter_authenticated_enable
                   /\ request.ip_filter_authenticated # EmptyText
                   /\ ~parse_csv_ip_ranges_to_ip_networks(request.ip_filter_authenticated).ok
           THEN [outcome |-> "ValueError", cfg |-> cfg]
           ELSE [outcome |-> "ok", cfg |-> node]
      ELSE [outcome |-> "ok", cfg |-> node]

\* NodeInstance.put by the admin who holds session s.
UpdateNode(s, request) ==
  /\ s \in Sessions
  /\ s.user_role = "admin"
  /\ tenant_cache' = [tenant_cache EXCEPT ![s.tid] = db_update_node(@, request).cfg]
  /\ UNCHANGED <<failed_login_attempts, last_login, last_access, Sessions, next_id,
                 req, logout, db>>

\* Staff logins over Tor, by password, with node updates in between; below
\* the threshold of the delay no request sleeps.
InitNode ==
  /\ failed_login_attempts = 0
  /\ tenant_cache \in {CacheA, CacheB}
  /\ last_login = [u \in UserIds |-> 0]
  /\ last_access = [w \in TipIds |-> 0]
  /\ Sessions = {}
  /\ next_id = 0
  /\ req = [r \in Reqs |-> Idle]
  /\ logout = NoLogout
  /\ db = EmptyDb

NextNode ==
  \/ \E r \in Reqs : InTurn(r) /\ PostBegin(r, "auth")
  \/ \E r \in Reqs :
       /\ req[r].pc = "txn"
       /\ \E tid \in Tenants, password \in Passwords, client_ip \in ClientIps :
            Login(r, tid, "alice", password, TRUE, client_ip, "")
  \/ \E r \in Reqs : NewSession(r)
  \/ \E r \in Reqs : Respond(r)
  \/ \E s \in Sessions, request \in NodeRequests : UpdateNode(s, request)

SpecNode == InitNode /\ [][NextNode]_vars

(***************************************************************************)
(* signup.py: signup and signup_activation.  db.wizards counts the runs of *)
(* db_initialize_tenant and db_wizard for each tenant; db.ret is what the  *)
(* last call returned or raised.                                           *)
(***************************************************************************)
Subdomains == {"a", "b"}

NoSignup == [activation_token |-> 0, tid |-> 0, subdomain |-> ""]

\* A key no signup holds yet.
generateRandomKey(d) == 1 + Cardinality(d.Signup)

\* The id of the row db_preallocate_tenant adds to Tenant.
db_preallocate_tenant(d) == 1 + SetMax(d.Tenant)

signup(d, subdomain) ==
  IF ~d.enable_signup
  THEN [d EXCEPT !.ret = [outcome |-> "ForbiddenOperation", initialized |-> FALSE]]
  ELSE LET activation_token == generateRandomKey(d)
           tenant_id == db_preallocate_tenant(d)
       IN  [d EXCEPT !.Tenant = @ \cup {tenant_id},
                     !.Signup = @ \cup {[activation_token |-> activation_token,
                                         tid |-> tenant_id,
                                         subdomain |-> subdomain]},
                     !.ret = [outcome |-> "signup", initialized |-> FALSE]]

\* Mutant: the tenant initialized whether or not it has rows of Config.
signup_activation_always(d, token) ==
  IF ~d.enable_signup
  THEN [d EXCEPT !.ret = [outcome |-> "ForbiddenOperation", initialized |-> FALSE]]
  ELSE LET signup_row == one_or_none({s \in d.Signup : s.activation_token = token}, NoSignup)
       IN  IF signup_row = NoSignup
           THEN [d EXCEPT !.ret = [outcome |-> "empty", initialized |-> FALSE]]
           ELSE [d EXCEPT !.Config = @ \cup {signup_row.tid},
                          !.wizards[signup_row.tid] = @ + 1,
                          !.ret = [outcome |-> IF signup_row.tid \in d.Tenant
                                               THEN "platform" ELSE "empty",
                                   initialized |-> TRUE]]

signup_activation(d, token) ==
  IF ~d.enable_signup
  THEN [d EXCEPT !.ret = [outcome |-> "ForbiddenOperation", initialized |-> FALSE]]
  ELSE LET signup_row == one_or_none({s \in d.Signup : s.activation_token = token}, NoSignup)
       IN  IF signup_row = NoSignup
           THEN [d EXCEPT !.ret = [outcome |-> "empty", initialized |-> FALSE]]
           ELSE LET fresh == signup_row.tid \notin d.Config
                IN  [d EXCEPT !.Config = @ \cup {signup_row.tid},
                              !.wizards[signup_row.tid] = IF fresh THEN @ + 1 ELSE @,
                              !.ret = [outcome |-> IF signup_row.tid \in d.Tenant
                                                   THEN "platform" ELSE "empty",
                                       initialized |-> fresh]]

\* Signup.post
SignupPost(subdomain) ==
  /\ Cardinality(db.Signup) < MaxSignups
  /\ db' = signup(db, subdomain)
  /\ UNCHANGED <<failed_login_attempts, tenant_cache, last_login, last_access,
                 Sessions, next_id, req, logout>>

\* SignupActivation.get
SignupActivationGet(token) ==
  /\ db' = signup_activation(db, token)
  /\ UNCHANGED <<failed_login_attempts, tenant_cache, last_login, last_access,
                 Sessions, next_id, req, logout>>

\* The tokens a caller may send: those signup may hand out, and 0, which it
\* never does.
ActivationTokens == 0..MaxSignups

InitSignup ==
  /\ failed_login_attempts = 0
  /\ tenant_cache = CacheA
  /\ last_login = [u \in UserIds |-> 0]
  /\ last_access = [w \in TipIds |-> 0]
  /\ Sessions = {}
  /\ next_id = 0
  /\ req = [r \in Reqs |-> Idle]
  /\ logout = NoLogout
  /\ \E b \in BOOLEAN : db = [EmptyDb EXCEPT !.enable_signup = b]

NextSignup ==
  \/ \E subdomain \in Subdomains : SignupPost(subdomain)
  \/ \E token \in ActivationTokens : SignupActivationGet(token)

SpecSignup == InitSignup /\ [][NextSignup]_vars

(***************************************************************************)
(* What the claims speak of, stated on the credential store and on the     *)
(* tenant settings directly.                                               *)
(***************************************************************************)
\* The transaction of slot r has returned or raised: its request is known.
Finished(r) == req[r].pc \in {"session", "done"}

\* The users whose credentials a staff request carries.
Matching(a) ==
  IF a.token # ""
  THEN {u \in UserTable : u.auth_token = a.token /\ u.state = "enabled" /\ u.tid = a.tid}
  ELSE {u \in UserTable :
          /\ u.username = a.username
          /\ u.password = <<u.salt, a.password>>
          /\ u.state = "enabled"
          /\ (u.tid = a.tid \/ (u.role = "admin" /\ u.tid = 1))}

\* The submissions whose receipt a receipt request carries.
MatchingTips(a) ==
  {w \in TipTable : w.tid = a.tid /\ w.receipt_hash = <<receipt_salt(a.tid), a.receipt>>}

CredentialsFail(slot) ==
  IF slot.kind = "auth" THEN Matching(slot.args) = {} ELSE MatchingTips(slot.args) = {}

WebAccess(cfg, role) ==
  \/ role = "admin" /\ cfg.https_admin
  \/ role = "receiver" /\ cfg.https_receiver
  \/ role = "custodian" /\ cfg.https_custodian

\* The Tor/web-access rule lets every user the request may resolve to pass.
TorPasses(a) ==
  a.client_using_tor \/ \A u \in Matching(a) : WebAccess(tenant_cache[a.tid], u.role)

\* The addresses of a configured range.
InRange(ip, text) ==
  \/ text = "10.0.0.0/24" /\ ip[1] = 10 /\ ip[2] = 0 /\ ip[3] = 0
  \/ text = "172.16.0.0/12" /\ ip[1] = 172 /\ ip[2] \in 16..31
  \/ text = "192.168.1.1" /\ ip = <<192, 168, 1, 1>>

Allowed(a) ==
  \/ a.client_ip[1] = 127
  \/ \E i \in 1..Len(tenant_cache[a.tid].ip_filter_authenticated) :
       InRange(a.client_ip, tenant_cache[a.tid].ip_filter_authenticated[i])

\* A transaction step of slot r.
TxnStep(r) == req[r].pc = "txn" /\ req'[r].pc \in {"session", "done"}

(***************************************************************************)
(* C1: random_login_delay returns 0 below 5 failed attempts, a value       *)
(* between min(x, 42) and min(x*x, 42) for 5 <= x < 42, and exactly 42     *)
(* from 42 on; the range is never empty and no delay exceeds 42.           *)
(***************************************************************************)
C1_DelayTable ==
  LET x == failed_login_attempts
      lo == IF x < 42 THEN x ELSE 42
      hi == IF x * x < 42 THEN x * x ELSE 42
  IN  /\ random_login_delay(x) # {}
      /\ \A r \in Reqs :
           req[r].pc # "idle" =>
             /\ req[r].delay <= 42
             /\ x < 5 => req[r].delay = 0
             /\ (5 <= x /\ x < 42) => (lo <= req[r].delay /\ req[r].delay <= hi /\ lo <= hi)
             /\ x >= 42 => req[r].delay = 42

C1_Witness ==
  failed_login_attempts = 7 /\ req[1].pc = "txn" /\ req[1].delay = 42

(***************************************************************************)
(* C2 as stated: a staff login naming a principal of role r over the clear *)
(* network, while the tenant's web-access flag for r is false, ends in     *)
(* TorNetworkRequired whether or not the credentials are valid.            *)
(***************************************************************************)
C2_AsStated ==
  \A r \in Reqs :
    (/\ Finished(r)
     /\ req[r].kind = "auth"
     /\ ~req[r].args.client_using_tor
     /\ req[r].args.token = ""
     /\ \E u \in UserTable :
          /\ u.username = req[r].args.username
          /\ u.tid = req[r].args.tid
          /\ u.state = "enabled"
          /\ ~WebAccess(tenant_cache[u.tid], u.role))
    => req[r].outcome = "TorNetworkRequired"

(***************************************************************************)
(* C2 amended: a staff login over the clear network whose credentials are  *)
(* valid for principals of roles whose web-access flag is false ends in    *)
(* TorNetworkRequired; with invalid credentials it ends in                 *)
(* InvalidAuthentication, whatever the flag.                               *)
(***************************************************************************)
C2_TorAfterCredentials ==
  \A r \in Reqs :
    (Finished(r) /\ req[r].kind = "auth") =>
      /\ (/\ ~req[r].args.client_using_tor
          /\ Matching(req[r].args) # {}
          /\ \A u \in Matching(req[r].args) : ~WebAccess(tenant_cache[req[r].args.tid], u.role))
         => req[r].outcome = "TorNetworkRequired"
      /\ Matching(req[r].args) = {} => req[r].outcome = "InvalidAuthentication"

C2_Witness ==
  \E r \in Reqs :
    /\ req[r].pc = "done"
    /\ req[r].kind = "auth"
    /\ req[r].outcome = "TorNetworkRequired"
    /\ ~req[r].args.client_using_tor
    /\ Matching(req[r].args) # {}

(***************************************************************************)
(* C3 as stated: with the counter at 4, the staff login whose wrong        *)
(* password raises it to 5 is itself answered after a delay in 5..25.      *)
(***************************************************************************)
C3_AsStated ==
  [][\A r \in Reqs :
       (/\ TxnStep(r)
        /\ req[r].kind = "auth"
        /\ failed_login_attempts = 4
        /\ failed_login_attempts' = 5)
       => req[r].delay \in 5..25]_vars

(***************************************************************************)
(* C3 amended: with the counter at 4, a staff login with a wrong password  *)
(* raises it to 5 and ends in InvalidAuthentication without any delay:     *)
(* the delay is drawn before the credentials are checked, from the counter *)
(* as it was then; the delay in 5..25 is applied to the request that       *)
(* arrives while the counter is 5.                                         *)
(***************************************************************************)
C3_DelayDrawnBefore ==
  [][/\ \A r \in Reqs :
          (/\ TxnStep(r)
           /\ req[r].kind = "auth"
           /\ failed_login_attempts = 4
           /\ Matching(req'[r].args) = {})
          => /\ failed_login_attempts' = 5
             /\ req'[r].outcome = "InvalidAuthentication"
             /\ req[r].delay = 0
     /\ \A r \in Reqs :
          (req[r].pc = "idle" /\ req'[r].pc # "idle" /\ failed_login_attempts = 5)
          => (req'[r].pc = "sleep" /\ req'[r].delay \in 5..25)]_vars

C3_Witness ==
  \E r \in Reqs :
    /\ req[r].pc = "done"
    /\ req[r].kind = "auth"
    /\ req[r].outcome = "InvalidAuthentication"
    /\ req[r].args.token = ""
    /\ req[r].delay = 0
    /\ failed_login_attempts = 5

(***************************************************************************)
(* C4: every login whose credential check fails (wrong password, unknown   *)
(* username, non-matching token, non-matching receipt) adds exactly one to *)
(* the one counter and ends in InvalidAuthentication, in every tenant.     *)
(***************************************************************************)
C4_FailureCounts ==
  [][\A r \in Reqs :
       (TxnStep(r) /\ CredentialsFail(req'[r]))
       => /\ failed_login_attempts' = failed_login_attempts + 1
          /\ req'[r].outcome = "InvalidAuthentication"]_vars

C4_Witness ==
  /\ req[1].pc = "closed"
  /\ req[2].pc = "done"
  /\ req[2].kind = "receipt"
  /\ req[2].outcome = "InvalidAuthentication"
  /\ req[2].args.tid = 3
  /\ failed_login_attempts = 2

(***************************************************************************)
(* C5: a login with valid credentials that the network policy denies       *)
(* (TorNetworkRequired, AccessLocationInvalid) leaves the counter as it is.*)
(***************************************************************************)
C5_DenialKeepsCounter ==
  [][\A r \in Reqs :
       (TxnStep(r) /\ ~CredentialsFail(req'[r]))
       => /\ failed_login_attempts' = failed_login_attempts
          /\ req'[r].outcome # "InvalidAuthentication"]_vars

C5_Witness ==
  \E r \in Reqs :
    /\ req[r].pc = "done"
    /\ req[r].outcome = "AccessLocationInvalid"
    /\ Matching(req[r].args) # {}
    /\ failed_login_attempts = 0

(***************************************************************************)
(* C6: over any sequence of logins, receipt logins, session refreshes and  *)
(* logouts the counter never decreases, and a successful login leaves it   *)
(* at the value the failures before it left.                               *)
(***************************************************************************)
C6_CounterMonotone ==
  [][/\ failed_login_attempts' >= failed_login_attempts
     /\ \A r \in Reqs :
          (TxnStep(r) /\ req'[r].outcome = "Success")
          => failed_login_attempts' = failed_login_attempts]_vars

C6_Witness ==
  /\ req[1].pc = "closed"
  /\ req[2].pc = "done"
  /\ req[2].outcome = "Success"
  /\ failed_login_attempts = 1

(***************************************************************************)
(* C7: once N failing logins running in parallel have all completed, the   *)
(* counter is its initial value (0) plus N.                                *)
(***************************************************************************)
C7_NoLostIncrement ==
  (\A r \in Reqs : req[r].pc = "done")
  => failed_login_attempts
       = Cardinality({r \in Reqs : req[r].outcome = "InvalidAuthentication"})

(***************************************************************************)
(* C8: the user a username/password login into tenant t authenticates is   *)
(* registered in t, or is an admin registered in tenant 1.                 *)
(***************************************************************************)
C8_TenantIsolation ==
  \A r \in Reqs :
    (/\ Finished(r)
     /\ req[r].kind = "auth"
     /\ req[r].args.token = ""
     /\ req[r].outcome = "Success")
    => \E u \in UserTable :
         /\ u.id = req[r].user_id
         /\ u.username = req[r].args.username
         /\ (u.tid = req[r].args.tid \/ (u.role = "admin" /\ u.tid = 1))

C8_Witness ==
  \E r \in Reqs :
    /\ req[r].pc = "done"
    /\ req[r].outcome = "Success"
    /\ req[r].args.token = ""
    /\ req[r].args.tid = 2
    /\ req[r].user_id = 1
    /\ req[r].role = "admin"

(***************************************************************************)
(* C9: with a token, login resolves the user by the token alone, among the *)
(* users of the tenant that are not disabled: the username and password    *)
(* play no part, a root admin's token opens no other tenant, and the token *)
(* of another tenant's user or of a disabled user ends in                  *)
(* InvalidAuthentication.                                                  *)
(***************************************************************************)
C9_TokenOnly ==
  \A r \in Reqs :
    (Finished(r) /\ req[r].kind = "auth" /\ req[r].args.token # "") =>
      LET owners == {u \in UserTable :
                       /\ u.auth_token = req[r].args.token
                       /\ u.tid = req[r].args.tid
                       /\ u.state # "disabled"}
      IN  /\ owners = {} <=> req[r].outcome = "InvalidAuthentication"
          /\ req[r].outcome = "Success" => \E u \in owners : u.id = req[r].user_id

C9_Witness ==
  \E r \in Reqs :
    /\ req[r].pc = "done"
    /\ req[r].outcome = "Success"
    /\ req[r].args.token = "tokA"
    /\ req[r].args.username = "nobody"
    /\ req[r].user_id = 1

(***************************************************************************)
(* C10: with the tenant's IP filter enabled (and an allow-list that        *)
(* parses), a staff login with valid credentials that passes the Tor rule  *)
(* succeeds exactly when the client address is a loopback address or lies  *)
(* in a configured range, and ends in AccessLocationInvalid otherwise;     *)
(* with the filter disabled no login ends in AccessLocationInvalid.        *)
(***************************************************************************)
C10_IpFilter ==
  \A r \in Reqs :
    (Finished(r) /\ req[r].kind = "auth") =>
      LET a == req[r].args
          enabled == tenant_cache[a.tid].ip_filter_authenticated_enable
      IN  /\ (enabled /\ Matching(a) # {} /\ TorPasses(a)) =>
                req[r].outcome = IF Allowed(a) THEN "Success" ELSE "AccessLocationInvalid"
          /\ (~enabled /\ Matching(a) # {} /\ TorPasses(a)) => req[r].outcome = "Success"
          /\ ~enabled => req[r].outcome # "AccessLocationInvalid"

C10_Witness ==
  \E r \in Reqs :
    /\ req[r].pc = "done"
    /\ req[r].outcome = "Success"
    /\ req[r].args.tid = 2
    /\ req[r].args.client_ip = <<127, 0, 0, 1>>
    /\ tenant_cache[2].ip_filter_authenticated_enable
    /\ tenant_cache[2].ip_filter_authenticated = <<"10.0.0.0/24">>

(***************************************************************************)
(* C11: after the credential check the Tor/web-access rule is evaluated    *)
(* before the IP allow-list rule: a staff login with valid credentials     *)
(* that violates both (clear network with the role's flag false, and an    *)
(* address outside the enabled allow-list) ends in TorNetworkRequired, and *)
(* a login that ends in AccessLocationInvalid has passed the Tor rule.     *)
(***************************************************************************)
C11_TorBeforeIp ==
  \A r \in Reqs :
    (Finished(r) /\ req[r].kind = "auth") =>
      LET a == req[r].args
          cfg == tenant_cache[a.tid]
      IN  /\ (/\ Matching(a) # {}
              /\ ~a.client_using_tor
              /\ \A u \in Matching(a) : ~WebAccess(cfg, u.role)
              /\ cfg.ip_filter_authenticated_enable
              /\ ~Allowed(a))
             => req[r].outcome = "TorNetworkRequired"
          /\ req[r].outcome = "AccessLocationInvalid"
             => (a.client_using_tor \/ \E u \in Matching(a) : WebAccess(cfg, u.role))

C11_Witness ==
  \E r \in Reqs :
    /\ req[r].pc = "done"
    /\ req[r].kind = "auth"
    /\ req[r].outcome = "TorNetworkRequired"
    /\ Matching(req[r].args) # {}
    /\ tenant_cache[req[r].args.tid].ip_filter_authenticated_enable
    /\ ~Allowed(req[r].args)

(***************************************************************************)
(* C12: a whistleblower login into tenant t with receipt R succeeds        *)
(* exactly when a submission of t stores the hash of R under t's receipt   *)
(* salt and the clear-network flag permits the origin; on success that     *)
(* submission's last-access time stamp is updated, no other is, and its id *)
(* is returned.  With any other receipt, a receipt of another tenant's     *)
(* submission included, it ends in InvalidAuthentication and no            *)
(* last-access time stamp changes.                                         *)
(***************************************************************************)
C12_ReceiptLogin ==
  [][\A r \in Reqs :
       (TxnStep(r) /\ req[r].kind = "receipt") =>
         LET a == req'[r].args
             tips == MatchingTips(a)
             permitted == a.client_using_tor \/ tenant_cache[a.tid].https_whistleblower
         IN  /\ req'[r].outcome = "Success" <=> (tips # {} /\ permitted)
             /\ req'[r].outcome = "Success" =>
                  \E w \in tips :
                    /\ req'[r].user_id = w.id
                    /\ last_access'[w.id] > last_access[w.id]
                    /\ \A v \in TipIds \ {w.id} : last_access'[v] = last_access[v]
             /\ tips = {} =>
                  /\ req'[r].outcome = "InvalidAuthentication"
                  /\ last_access' = last_access]_vars

C12_Witness ==
  \E r \in Reqs :
    /\ req[r].pc = "session"
    /\ req[r].kind = "receipt"
    /\ req[r].outcome = "Success"
    /\ req[r].args.receipt = "R1"
    /\ req[r].args.tid = 2
    /\ req[r].user_id = 11
    /\ last_access[11] > 0
    /\ last_access[12] = 0

(***************************************************************************)
(* C13: the only network policy of a whistleblower login is the tenant's   *)
(* whistleblower web-access flag: with a matching receipt the login ends   *)
(* in TorNetworkRequired iff the client is not using Tor and the flag is   *)
(* false, and succeeds otherwise, whatever the staff flags and the         *)
(* allow-list are; no whistleblower login ends in AccessLocationInvalid or *)
(* in a parsing error.                                                     *)
(***************************************************************************)
C13_WhistleblowerPolicy ==
  \A r \in Reqs :
    (Finished(r) /\ req[r].kind = "receipt") =>
      LET a == req[r].args
          denied == ~a.client_using_tor /\ ~tenant_cache[a.tid].https_whistleblower
      IN  /\ MatchingTips(a) # {} =>
                req[r].outcome = IF denied THEN "TorNetworkRequired" ELSE "Success"
          /\ req[r].outcome \notin {"AccessLocationInvalid", "ValueError"}

C13_Witness ==
  \E r \in Reqs :
    /\ Finished(r)
    /\ req[r].kind = "receipt"
    /\ req[r].outcome = "Success"
    /\ ~req[r].args.client_using_tor
    /\ tenant_cache[req[r].args.tid].ip_filter_authenticated_enable
    /\ ~tenant_cache[req[r].args.tid].https_receiver

(***************************************************************************)
(* C14: a session is created if and only if the login completed            *)
(* successfully.  A login that fails (InvalidAuthentication,               *)
(* TorNetworkRequired, AccessLocationInvalid, or any other raise) ends the *)
(* request there: it adds no session and changes no last-login or          *)
(* last-access time stamp.  The registry grows only by the one step that   *)
(* follows a successful login, and the session it then holds is complete:  *)
(* a new identifier, the request's tenant, and the id, role and status the *)
(* login returned.                                                         *)
(***************************************************************************)
C14_SessionIffSuccess ==
  [][/\ \A r \in Reqs :
          (TxnStep(r) /\ req'[r].outcome # "Success") =>
            /\ req'[r].pc = "done"
            /\ Sessions' = Sessions
            /\ last_login' = last_login
            /\ last_access' = last_access
     /\ \A r \in Reqs :
          (TxnStep(r) /\ req'[r].outcome = "Success") =>
            (req'[r].pc = "session" /\ Sessions' = Sessions)
     /\ \A r \in Reqs :
          (req[r].pc = "session" /\ req'[r].pc # "session") =>
            /\ req[r].outcome = "Success"
            /\ \E s \in Sessions' \ Sessions :
                 /\ Sessions' = Sessions \cup {s}
                 /\ \A old \in Sessions : old.id # s.id
                 /\ s.tid = req[r].args.tid
                 /\ s.user_id = req[r].user_id
                 /\ s.user_role = req[r].role
                 /\ s.user_status = req[r].status
     /\ ~(Sessions' \subseteq Sessions) =>
          \E r \in Reqs : req[r].pc = "session" /\ req'[r].pc = "done"]_vars

C14_Witness ==
  /\ req[1].pc = "closed"
  /\ Cardinality(Sessions) = 1
  /\ req[2].pc = "done"
  /\ req[2].outcome = "AccessLocationInvalid"
  /\ \E s \in Sessions : s.user_role = "whistleblower" /\ last_access[s.user_id] > 0
  /\ \A u \in UserIds : last_login[u] = 0

(***************************************************************************)
(* C15: logout removes the caller's session and is idempotent: once a      *)
(* session identifier has been revoked no session of the registry carries  *)
(* it, now or after any later login, and a DELETE for an identifier that   *)
(* has been revoked already is answered without an error.                  *)
(***************************************************************************)
C15_LogoutIdempotent ==
  /\ \A s \in Sessions : s.id \in 1..next_id
  /\ logout.outcome = "ok" => \A s \in Sessions : s.id # logout.id
  /\ logout.outcome \in {"none", "ok"}

(***************************************************************************)
(* C16: a staff login for an unknown username and a staff login for a      *)
(* known username with a wrong password are answered alike: each ends in   *)
(* InvalidAuthentication, returns no user, creates no session and adds one *)
(* to the failure counter.                                                 *)
(***************************************************************************)
Known(a) ==
  \E u \in UserTable :
    /\ u.username = a.username
    /\ u.state = "enabled"
    /\ (u.tid = a.tid \/ (u.role = "admin" /\ u.tid = 1))

Answer(r) ==
  <<req'[r].pc, req'[r].outcome, req'[r].user_id, req'[r].role, req'[r].status,
    failed_login_attempts' - failed_login_attempts, Sessions' = Sessions>>

C16_UnknownLikeWrong ==
  [][\A r \in Reqs :
       (/\ TxnStep(r)
        /\ req[r].kind = "auth"
        /\ req'[r].args.token = ""
        /\ (~Known(req'[r].args) \/ (Known(req'[r].args) /\ Matching(req'[r].args) = {})))
       => Answer(r) = <<"done", "InvalidAuthentication", 0, "none", "none", 1, TRUE>>]_vars

C16_Witness ==
  /\ req[1].pc = "closed"
  /\ req[2].pc = "done"
  /\ req[2].kind = "auth"
  /\ req[2].args.token = ""
  /\ ~Known(req[2].args)
  /\ req[2].outcome = "InvalidAuthentication"
  /\ failed_login_attempts = 2
  /\ Sessions = {}

(***************************************************************************)
(* C17: a staff login for an unknown username still makes a call of the    *)
(* password verifier, with a dummy comparison: it makes as many verifier   *)
(* calls (one) as a login that finds one candidate whose password is       *)
(* wrong.                                                                  *)
(***************************************************************************)
C17_DummyVerifierCall ==
  \A r \in Reqs :
    (/\ Finished(r)
     /\ req[r].kind = "auth"
     /\ req[r].args.token = ""
     /\ ~Known(req[r].args))
    => req[r].calls = 1

(***************************************************************************)
(* C18: every login attempt first waits for the delay drawn from the       *)
(* failure counter, whatever its outcome will be: with the counter at 5 or *)
(* more the request sleeps, for at least 5 and at most 42 seconds, before  *)
(* its login is processed, and a login with valid credentials that the     *)
(* network policy lets pass then still succeeds and is given a session     *)
(* with the principal's role (for instance admin, after the failures that  *)
(* brought the counter to 5).                                              *)
(***************************************************************************)
PolicyPasses(slot) ==
  IF slot.kind = "auth"
  THEN /\ TorPasses(slot.args)
       /\ (tenant_cache[slot.args.tid].ip_filter_authenticated_enable => Allowed(slot.args))
  ELSE slot.args.client_using_tor \/ tenant_cache[slot.args.tid].https_whistleblower

Principal(slot) ==
  IF slot.kind = "auth"
  THEN \E u \in Matching(slot.args) : slot.user_id = u.id /\ slot.role = u.role
  ELSE \E w \in MatchingTips(slot.args) : slot.user_id = w.id /\ slot.role = "whistleblower"

C18_DelayThenSuccess ==
  [][\A r \in Reqs :
       /\ (req[r].pc = "idle" /\ req'[r].pc # "idle") =>
            IF failed_login_attempts >= 5
            THEN req'[r].pc = "sleep" /\ req'[r].delay \in 5..42
            ELSE req'[r].pc = "txn" /\ req'[r].delay = 0
       /\ (req[r].pc # "txn" /\ req'[r].pc = "txn") =>
            (req[r].pc = "sleep" \/ (req[r].pc = "idle" /\ failed_login_attempts < 5))
       /\ (req[r].pc # "idle" /\ req'[r].pc \notin {"idle", "closed"}) =>
            req'[r].delay = req[r].delay
       /\ (TxnStep(r) /\ failed_login_attempts >= 5) =>
            /\ req[r].delay \in 5..42
            /\ (~CredentialsFail(req'[r]) /\ PolicyPasses(req'[r])) =>
                 /\ req'[r].outcome = "Success"
                 /\ req'[r].pc = "session"
                 /\ Principal(req'[r])
       /\ (req[r].pc = "session" /\ req'[r].pc = "done") =>
            \E s \in Sessions' \ Sessions :
              s.user_role = req[r].role /\ s.user_id = req[r].user_id]_vars

C18_Witness ==
  \E r \in Reqs :
    /\ req[r].pc = "done"
    /\ req[r].kind = "auth"
    /\ req[r].outcome = "Success"
    /\ req[r].role = "admin"
    /\ req[r].delay >= 5
    /\ failed_login_attempts = 5
    /\ \E s \in Sessions : s.user_role = "admin" /\ s.user_id = req[r].user_id

(***************************************************************************)
(* C19: after any sequence of node updates, a tenant whose stored          *)
(* configuration has the authenticated-IP filter enabled stores an         *)
(* allow-list that parses, so that no login fails in the parsing of the    *)
(* allow-list; also after an update that enables the flag and brings no    *)
(* list, and after a list stored with the flag disabled and the flag       *)
(* enabled later.                                                          *)
(***************************************************************************)
C19_EnabledListParses ==
  /\ \A t \in Tenants :
       tenant_cache[t].ip_filter_authenticated_enable
       => parse_csv_ip_ranges_to_ip_networks(tenant_cache[t].ip_filter_authenticated).ok
  /\ \A r \in Reqs : Finished(r) => req[r].outcome # "ValueError"

(***************************************************************************)
(* C20: a staff login during which the parsing of the tenant's allow-list  *)
(* fails is denied with the generic InvalidAuthentication, never with an   *)
(* error that tells of the parsing problem, and creates no session.        *)
(***************************************************************************)
C20_ParseFailureGeneric ==
  \A r \in Reqs :
    (/\ Finished(r)
     /\ req[r].kind = "auth"
     /\ Matching(req[r].args) # {}
     /\ TorPasses(req[r].args)
     /\ tenant_cache[req[r].args.tid].ip_filter_authenticated_enable
     /\ ~parse_csv_ip_ranges_to_ip_networks(
           tenant_cache[req[r].args.tid].ip_filter_authenticated).ok)
    => (req[r].pc = "done" /\ req[r].outcome = "InvalidAuthentication")

(***************************************************************************)
(* C21: in a username/password login the candidates are verified one at a  *)
(* time, in the order of the query, until one matches: no candidate is     *)
(* verified after the first whose password verifies, and that first one is *)
(* the principal authenticated, also when a root-tenant admin and a user   *)
(* of the target tenant share the username and the password.               *)
(***************************************************************************)
Verifies(id, a) ==
  \E u \in UserTable : u.id = id /\ u.password = <<u.salt, a.password>>

C21_FirstMatchWins ==
  \A r \in Reqs :
    (/\ Finished(r)
     /\ req[r].kind = "auth"
     /\ req[r].args.token = ""
     /\ \E i \in 1..Len(req[r].rows) : Verifies(req[r].rows[i], req[r].args))
    => LET first == CHOOSE i \in 1..Len(req[r].rows) :
                      /\ Verifies(req[r].rows[i], req[r].args)
                      /\ \A j \in 1..(i - 1) : ~Verifies(req[r].rows[j], req[r].args)
       IN  /\ req[r].calls = first
           /\ req[r].outcome = "Success" => req[r].user_id = req[r].rows[first]

(***************************************************************************)
(* C22: a user whose state is disabled never obtains a session.  A staff   *)
(* login that carries a disabled user's username and password, or a        *)
(* disabled user's token, and the credentials of no enabled user, ends in  *)
(* InvalidAuthentication and adds one to the failure counter as a wrong    *)
(* secret does, in the user's own tenant and, for a disabled root-tenant   *)
(* admin, in every other tenant; no login returns a disabled user and no   *)
(* staff session is a disabled user's.                                     *)
(***************************************************************************)
DisabledOwner(a) ==
  \E u \in UserTable :
    /\ u.state = "disabled"
    /\ IF a.token # ""
       THEN u.auth_token = a.token
       ELSE u.username = a.username /\ u.password = <<u.salt, a.password>>

IsDisabled(id) == \E u \in UserTable : u.id = id /\ u.state = "disabled"

C22_DisabledNeverIn ==
  [][/\ \A r \in Reqs :
          (TxnStep(r) /\ req[r].kind = "auth") =>
            /\ req'[r].outcome = "Success" =>
                 (~IsDisabled(req'[r].user_id) /\ req'[r].status # "disabled")
            /\ (DisabledOwner(req'[r].args) /\ Matching(req'[r].args) = {}) =>
                 /\ req'[r].outcome = "InvalidAuthentication"
                 /\ req'[r].pc = "done"
                 /\ failed_login_attempts' = failed_login_attempts + 1
     /\ \A s \in Sessions' :
          s.user_role # "whistleblower" => ~IsDisabled(s.user_id)]_vars

C22_Witness ==
  \E r \in Reqs :
    /\ req[r].pc = "done"
    /\ req[r].kind = "auth"
    /\ req[r].outcome = "InvalidAuthentication"
    /\ req[r].args.token = ""
    /\ req[r].args.username = "bob"
    /\ req[r].args.password = "p2"
    /\ req[r].args.tid = 3
    /\ req[r].rows = <<5>>
    /\ failed_login_attempts \in {1, 5}

(***************************************************************************)
(* C23: every session a login handler creates carries the tenant id of the *)
(* request (also when a root-tenant admin logs into another tenant), the   *)
(* id of the principal that passed the verification, and that principal's  *)
(* role and state; a session created by a receipt login has the role       *)
(* whistleblower and the status Enabled and is a submission's, and no      *)
(* staff login creates a session with the role whistleblower.              *)
(***************************************************************************)
C23_SessionFields ==
  [][/\ \A r \in Reqs :
          (req[r].pc = "session" /\ req'[r].pc = "done") =>
            \E s \in Sessions' \ Sessions :
              /\ s.tid = req[r].args.tid
              /\ IF req[r].kind = "auth"
                 THEN /\ s.user_role # "whistleblower"
                      /\ \E u \in Matching(req[r].args) :
                           /\ s.user_id = u.id
                           /\ s.user_role = u.role
                           /\ s.user_status = u.state
                 ELSE /\ s.user_role = "whistleblower"
                      /\ s.user_status = "Enabled"
                      /\ \E w \in MatchingTips(req[r].args) : s.user_id = w.id
     /\ \A s \in Sessions' :
          IF s.user_role = "whistleblower"
          THEN s.user_id \in TipIds /\ s.user_status = "Enabled"
          ELSE \E u \in UserTable :
                 u.id = s.user_id /\ u.role = s.user_role /\ u.state = s.user_status]_vars

C23_Witness ==
  \E s \in Sessions, t \in Sessions :
    /\ s.tid = 2
    /\ s.user_id = 1
    /\ s.user_role = "admin"
    /\ s.user_status = "enabled"
    /\ t.user_role = "whistleblower"
    /\ t.user_status = "Enabled"
    /\ t.user_id \in TipIds

(***************************************************************************)
(* C24: while the root tenant's enable_signup is false, signup and signup  *)
(* activation end in ForbiddenOperation and add no tenant, no signup       *)
(* record and no configuration.  While it is true, however often           *)
(* activation is called with one token the tenant is initialized and the   *)
(* wizard run at most once, and only while the tenant has no rows of       *)
(* Config; an unknown token is answered with an empty result and changes   *)
(* nothing.                                                                *)
(***************************************************************************)
Rows(d) == <<d.enable_signup, d.Tenant, d.Signup, d.Config, d.wizards>>

C24_SignupGuarded ==
  [][/\ ~db.enable_signup =>
          (db'.ret.outcome = "ForbiddenOperation" /\ Rows(db') = Rows(db))
     /\ db.enable_signup => db'.ret.outcome # "ForbiddenOperation"
     /\ \A t \in TenantIds :
          /\ db'.wizards[t] <= 1
          /\ db'.wizards[t] # db.wizards[t] =>
               /\ db'.wizards[t] = db.wizards[t] + 1
               /\ db'.ret.initialized
               /\ t \notin db.Config
               /\ t \in db'.Config
               /\ \E s \in db.Signup : s.tid = t
     /\ (\A s \in db.Signup : s.tid \in db.Config) =>
          \/ Rows(db') = Rows(db)
          \/ \E subdomain \in Subdomains : Rows(db') = Rows(signup(db, subdomain))
     /\ db'.ret.outcome = "empty" => Rows(db') = Rows(db)]_vars

C24_Witness ==
  \E s \in db.Signup :
    /\ db.ret.outcome = "platform"
    /\ ~db.ret.initialized
    /\ s.tid \in db.Config
    /\ db.wizards[s.tid] = 1
    /\ Cardinality(db.Signup) = 1

====
